---- MODULE Spec2Model ----
\* Model of src/app.py: the Streamlit script of the Cosmic Radiation Risk
\* Calculator.  One run of the script is: sidebar widgets, the try block that
\* fetches and parses the proton flux feed (with its bare except fallback),
\* the dose / risk arithmetic, the risk category and the shielding table.
\*
\* Numbers.  Python floats are modelled as exact rationals <<num, den>> in
\* lowest terms with den > 0; the operators below compute as the code
\* computes, with the code's literals (0.00005 = 1/20000, 0.7 = 7/10,
\* 0.5 = 1/2, 0.1 = 1/10).  float64 rounding is not modelled.
EXTENDS Integers, Sequences, FiniteSets

VARIABLES
    mission_days,        \* st.slider value                        (line 22)
    shielding_material,  \* st.selectbox value                     (line 23)
    response,            \* what requests.get(url) returned        (line 29)
    df,                  \* the parsed, filtered DataFrame          (lines 30-33)
    flux,                \* the flux the calculation consumes       (lines 35, 43)
    messages,            \* st.success / st.warning calls, in order (lines 36, 44)
    charted,             \* st.plotly_chart has rendered            (line 41)
    base_dose_per_day,   \* line 47
    daily_dose,          \* line 49
    total_dose,          \* line 50
    risk_percent,        \* line 51
    xray_equiv,          \* line 52
    category,            \* lines 61-66
    df_shield,           \* lines 71-75
    pc                   \* position of the script

vars == <<mission_days, shielding_material, response, df, flux, messages, charted,
          base_dose_per_day, daily_dose, total_dose, risk_percent, xray_equiv,
          category, df_shield, pc>>

\* ------------------------------------------------------------------ bounds
\* Longest response (number of raw records) the model enumerates.
MaxRecords == 2

\* ------------------------------------------------------- float arithmetic
Abs(n) == IF n < 0 THEN -n ELSE n

RECURSIVE GCD(_, _)
GCD(a, b) == IF b = 0 THEN a ELSE GCD(b, a % b)

\* The rational n/d (d # 0) in lowest terms with a positive denominator.
Norm(n, d) ==
    LET g == GCD(Abs(n), Abs(d))
        s == IF d < 0 THEN -1 ELSE 1
    IN  <<(s * n) \div g, (s * d) \div g>>

Num(n) == <<n, 1>>

\* A float that is not a number (pandas' missing value).
NaN == <<0, 0>>
\* A Python name that has not been assigned yet.
Unset == <<1, 0>>

IsNumber(x) == x[2] # 0

\* x * y
Mul(x, y) == Norm(x[1] * y[1], x[2] * y[2])
\* x / y
Div(x, y) == Norm(x[1] * y[2], x[2] * y[1])
\* x < y
Less(x, y) == x[1] * y[2] < y[1] * x[2]

\* ------------------------------------------------------------- the widgets
\* Durations an operator may try to dial in (a sample of the integers).
SampleDays == {0, 1, 180, 200, 1000, 1001}

slider_min_bug(min_value, max_value, value) ==
    {d \in SampleDays \cup {value} : d <= max_value}

\* st.slider(label, min_value, max_value, value): the values the widget can
\* return, all within [min_value, max_value]; value is its default.
slider(min_value, max_value, value) ==
    {d \in SampleDays \cup {value} : min_value <= d /\ d <= max_value}

\* st.selectbox(label, options): one of the options; the first is the default.
selectbox(options) == {options[i] : i \in 1..Len(options)}

ShieldingOptions == <<"None", "Aluminum", "Polyethylene">>

\* ------------------------------------------------------ the flux endpoint
Null == "null"
Band == ">=10 MeV"

\* pd.to_datetime on one time_tag string: minutes after midnight of the day the
\* feed covers.  -1 stands for "raises" (the string is no timestamp).
to_datetime(s) ==
    CASE s = "2025-01-01T00:05:00Z" -> 5
      [] s = "2025-01-01T00:10:00Z" -> 10
      [] OTHER -> -1

\* pd.to_numeric(..., errors='coerce') on one flux token: its value, or NaN
\* when the token is no number.
to_numeric(s) ==
    CASE s = "-1" -> Num(-1)
      [] s = "0" -> Num(0)
      [] s = "20000" -> Num(20000)
      [] OTHER -> NaN

\* Raw records of the feed: objects with time_tag, satellite, flux, energy.
Rec(t, sat, f, e) == [time_tag |-> t, satellite |-> sat, flux |-> f, energy |-> e]

RawRecords ==
    \* well-formed records of the requested band
    {Rec(t, "GOES-18", f, Band) :
        t \in {"2025-01-01T00:05:00Z", "2025-01-01T00:10:00Z"},
        f \in {"-1", "0", "20000"}}
    \cup
    { \* a well-formed record of another band
      Rec("2025-01-01T00:10:00Z", "GOES-18", "20000", ">=50 MeV"),
      \* flux that is no number
      Rec("2025-01-01T00:10:00Z", "GOES-18", "n/a", Band),
      \* a missing value in a field the calculation never reads
      Rec("2025-01-01T00:10:00Z", Null, "20000", Band),
      \* a timestamp that does not parse, in a record of another band
      Rec("yesterday", "GOES-18", "0", ">=50 MeV") }

RECURSIVE SeqsUpTo(_, _)
SeqsUpTo(S, n) ==
    IF n = 0 THEN {<<>>}
    ELSE LET shorter == SeqsUpTo(S, n - 1)
         IN  shorter \cup {Append(q, x) : q \in {r \in shorter : Len(r) = n - 1}, x \in S}

\* What requests.get(url) can come back with: a failed call, a body that is
\* not JSON, or a JSON array of records.
Responses ==
    {[kind |-> k, records |-> <<>>] : k \in {"network_error", "not_json"}}
    \cup {[kind |-> "json", records |-> q] : q \in SeqsUpTo(RawRecords, MaxRecords)}

NoResponse == [kind |-> "none", records |-> <<>>]

\* ------------------------------------------------ the try block, lines 29-33
\* requests.get(url).json(): raises when the call fails or the body is not JSON.
json_raises(resp) == resp.kind # "json"

\* df['time_tag'] on pd.DataFrame(data): KeyError when the array is empty (the
\* frame has no columns); pd.to_datetime raises on a string that is no timestamp.
to_datetime_raises(records) ==
    \/ Len(records) = 0
    \/ \E i \in 1..Len(records) : to_datetime(records[i].time_tag) = -1

\* Lines 30-32: one row per raw record, time_tag and flux converted.
DataFrame(records) ==
    [i \in 1..Len(records) |->
        [time_tag  |-> to_datetime(records[i].time_tag),
         satellite |-> records[i].satellite,
         flux      |-> to_numeric(records[i].flux),
         energy    |-> records[i].energy]]

\* A row with a missing value in any column.
HasNA(row) ==
    \/ row.time_tag = -1
    \/ row.satellite = Null
    \/ ~IsNumber(row.flux)
    \/ row.energy = Null

\* DataFrame.dropna(): the rows without a missing value, in order.
dropna(rows) == SelectSeq(rows, LAMBDA r : ~HasNA(r))

\* Line 33: df[df['energy'] == '>=10 MeV'].dropna()
FilterBand(rows) == dropna(SelectSeq(rows, LAMBDA r : r.energy = Band))

\* Line 35: .iloc[-1], the last row in frame order (IndexError on no rows is
\* the guard of ReadFlux).
iloc_last(rows) == rows[Len(rows)]

fallback_flux_zero == Num(0)

\* Line 43: flux = 100
fallback_flux == Num(100)

Success(f) == [call |-> "success", flux |-> f]
\* Line 44: the text names 100 itself.
Warning == [call |-> "warning", flux |-> Num(100)]

\* Lines 42-44: the bare except clause; the script goes on at line 47.
Except ==
    /\ flux' = fallback_flux
    /\ messages' = Append(messages, Warning)
    /\ pc' = "calc"

\* ------------------------------------------------ the calculation, lines 47-52
base_dose_per_day_wrong_constant(f) == Mul(f, <<1, 2000>>)

\* Line 47: flux * 0.00005
base_dose_per_day_of(f) == Mul(f, <<1, 20000>>)

\* Line 48: the dict, in its insertion order.
shield_factors ==
    << <<"None", Num(1)>>, <<"Aluminum", <<7, 10>>>>, <<"Polyethylene", <<1, 2>>>> >>

shield_keys == {shield_factors[i][1] : i \in 1..Len(shield_factors)}

\* shield_factors[material], for a key of the dict.
shield_factor(material) ==
    shield_factors[CHOOSE i \in 1..Len(shield_factors) : shield_factors[i][1] = material][2]

\* Line 49: base_dose_per_day * shield_factors[shielding_material]
daily_dose_of(base, material) == Mul(base, shield_factor(material))

total_dose_ignores_days(daily, days) == Mul(daily, Num(180))

\* Line 50: daily_dose * mission_days
total_dose_of(daily, days) == Mul(daily, Num(days))

\* Line 51: (total_dose / 1000) * 5
risk_percent_of(total) == Mul(Div(total, Num(1000)), Num(5))

\* Line 52: total_dose / 0.1
xray_equiv_of(total) == Div(total, <<1, 10>>)

category_of_exclusive(risk) ==
    IF ~Less(Num(1), risk) THEN "Low"
    ELSE IF ~Less(Num(5), risk) THEN "Moderate"
    ELSE "High"

\* Lines 61-66 (the labels without their emoji).
category_of(risk) ==
    IF Less(risk, Num(1)) THEN "Low"
    ELSE IF Less(risk, Num(5)) THEN "Moderate"
    ELSE "High"

shield_table_from_daily(base) ==
    [i \in 1..Len(shield_factors) |->
        [Material     |-> shield_factors[i][1],
         ShieldFactor |-> shield_factors[i][2],
         DosePerDay   |-> Mul(Mul(base, shield_factors[i][2]), shield_factors[2][2])]]

\* Lines 71-75: one row per entry of shield_factors, in the dict's order.
shield_table(base) ==
    [i \in 1..Len(shield_factors) |->
        [Material     |-> shield_factors[i][1],
         ShieldFactor |-> shield_factors[i][2],
         DosePerDay   |-> Mul(base, shield_factors[i][2])]]

\* ------------------------------------------------------------ the script
\* The first run: the widgets hold their defaults and the script is about to
\* enter the try block.
Init ==
    /\ mission_days = 180
    /\ shielding_material = ShieldingOptions[1]
    /\ response = NoResponse
    /\ df = <<>>
    /\ flux = Unset
    /\ messages = <<>>
    /\ charted = FALSE
    /\ base_dose_per_day = Unset
    /\ daily_dose = Unset
    /\ total_dose = Unset
    /\ risk_percent = Unset
    /\ xray_equiv = Unset
    /\ category = ""
    /\ df_shield = <<>>
    /\ pc = "try"

\* Lines 29-33: fetch, build the frame, convert, filter.  Any exception goes to
\* the except clause.
Fetch ==
    /\ pc = "try"
    /\ \E resp \in Responses :
        /\ response' = resp
        /\ IF json_raises(resp) \/ to_datetime_raises(resp.records)
           THEN /\ Except
                /\ df' = df
           ELSE /\ df' = FilterBand(DataFrame(resp.records))
                /\ pc' = "read"
                /\ UNCHANGED <<flux, messages>>
    /\ UNCHANGED <<mission_days, shielding_material, charted, base_dose_per_day,
                   daily_dose, total_dose, risk_percent, xray_equiv, category,
                   df_shield>>

\* Lines 35-36: read the last row's flux and report it; IndexError on an
\* empty frame goes to the except clause.
ReadFlux ==
    /\ pc = "read"
    /\ IF Len(df) = 0
       THEN Except
       ELSE /\ flux' = iloc_last(df).flux
            /\ messages' = Append(messages, Success(iloc_last(df).flux))
            /\ pc' = "chart"
    /\ UNCHANGED <<mission_days, shielding_material, response, df, charted,
                   base_dose_per_day, daily_dose, total_dose, risk_percent,
                   xray_equiv, category, df_shield>>

\* Lines 38-41: px.line and st.plotly_chart, still inside the try block: they
\* render, or raise into the bare except clause.
Chart ==
    /\ pc = "chart"
    /\ \E raised \in BOOLEAN :
        IF raised
        THEN /\ Except
             /\ charted' = charted
        ELSE /\ charted' = TRUE
             /\ pc' = "calc"
             /\ UNCHANGED <<flux, messages>>
    /\ UNCHANGED <<mission_days, shielding_material, response, df,
                   base_dose_per_day, daily_dose, total_dose, risk_percent,
                   xray_equiv, category, df_shield>>

\* Lines 47-52.  A shielding_material that is no key of shield_factors raises
\* KeyError at line 49, outside any try block: the run ends there.
Calculate ==
    /\ pc = "calc"
    /\ base_dose_per_day' = base_dose_per_day_of(flux)
    /\ IF shielding_material \in shield_keys
       THEN /\ daily_dose' = daily_dose_of(base_dose_per_day', shielding_material)
            /\ total_dose' = total_dose_of(daily_dose', mission_days)
            /\ risk_percent' = risk_percent_of(total_dose')
            /\ xray_equiv' = xray_equiv_of(total_dose')
            /\ pc' = "category"
       ELSE /\ pc' = "crashed"
            /\ UNCHANGED <<daily_dose, total_dose, risk_percent, xray_equiv>>
    /\ UNCHANGED <<mission_days, shielding_material, response, df, flux, messages,
                   charted, category, df_shield>>

\* Lines 61-67.
Categorize ==
    /\ pc = "category"
    /\ category' = category_of(risk_percent)
    /\ pc' = "table"
    /\ UNCHANGED <<mission_days, shielding_material, response, df, flux, messages,
                   charted, base_dose_per_day, daily_dose, total_dose, risk_percent,
                   xray_equiv, df_shield>>

\* Lines 70-76.  The rest of the script (histogram, tabs, map) reads total_dose
\* only and changes none of these names.
ShieldingTable ==
    /\ pc = "table"
    /\ df_shield' = shield_table(base_dose_per_day)
    /\ pc' = "done"
    /\ UNCHANGED <<mission_days, shielding_material, response, df, flux, messages,
                   charted, base_dose_per_day, daily_dose, total_dose, risk_percent,
                   xray_equiv, category>>

\* The operator moves a widget: Streamlit runs the script again from the top,
\* with the widgets returning their current values (lines 20-23).
Rerun ==
    /\ pc = "done"
    /\ mission_days' \in slider(1, 1000, 180)
    /\ shielding_material' \in selectbox(ShieldingOptions)
    /\ response' = NoResponse
    /\ df' = <<>>
    /\ flux' = Unset
    /\ messages' = <<>>
    /\ charted' = FALSE
    /\ base_dose_per_day' = Unset
    /\ daily_dose' = Unset
    /\ total_dose' = Unset
    /\ risk_percent' = Unset
    /\ xray_equiv' = Unset
    /\ category' = ""
    /\ df_shield' = <<>>
    /\ pc' = "try"

Next ==
    \/ Fetch
    \/ ReadFlux
    \/ Chart
    \/ Calculate
    \/ Categorize
    \/ ShieldingTable
    \/ Rerun

Spec == Init /\ [][Next]_vars

\* ================================================================ claims
AfterTry == pc \in {"calc", "category", "table", "done"}
Calculated == pc \in {"category", "table", "done"}
Categorized == pc \in {"table", "done"}

Shown(call) == \E i \in 1..Len(messages) : messages[i].call = call

\* The catalog as the specification states it.
Catalog(material) ==
    CASE material = "None" -> <<1, 1>>
      [] material = "Aluminum" -> <<7, 10>>
      [] material = "Polyethylene" -> <<1, 2>>

NonNegative(x) == x[1] >= 0

\* C1: once calculated, base_dose_per_day = flux * 0.00005, daily_dose =
\* base_dose_per_day * Catalog[shielding], total_dose = daily_dose *
\* duration_days, risk_percent = (total_dose / 1000) * 5 and xray_equivalent =
\* total_dose / 0.1; flux 100, 180 days, Aluminum gives 0.005, 0.0035, 0.63,
\* 0.00315, 6.3 and category Low.
C1_Formulas ==
    Calculated =>
        /\ base_dose_per_day = Norm(flux[1], flux[2] * 20000)
        /\ daily_dose = Mul(base_dose_per_day, Catalog(shielding_material))
        /\ total_dose = Norm(daily_dose[1] * mission_days, daily_dose[2])
        /\ risk_percent = Norm(total_dose[1] * 5, total_dose[2] * 1000)
        /\ xray_equiv = Norm(total_dose[1] * 10, total_dose[2])
        /\ (flux = <<100, 1>> /\ mission_days = 180 /\ shielding_material = "Aluminum") =>
              /\ base_dose_per_day = <<1, 200>>
              /\ daily_dose = <<7, 2000>>
              /\ total_dose = <<63, 100>>
              /\ risk_percent = <<63, 20000>>
              /\ xray_equiv = <<63, 10>>
              /\ (Categorized => category = "Low")

C1_Witness ==
    /\ pc = "done"
    /\ flux = <<100, 1>>
    /\ mission_days = 180
    /\ shielding_material = "Aluminum"
    /\ total_dose = <<63, 100>>
    /\ category = "Low"

\* C2: the category is Low iff risk_percent < 1, Moderate iff
\* 1 <= risk_percent < 5, High iff risk_percent >= 5, and is always one of
\* the three.
C2_CategoryThresholds ==
    Categorized =>
        LET n == risk_percent[1]
            d == risk_percent[2]
        IN  /\ category \in {"Low", "Moderate", "High"}
            /\ (category = "Low") <=> (n < d)
            /\ (category = "Moderate") <=> (d <= n /\ n < 5 * d)
            /\ (category = "High") <=> (n >= 5 * d)

\* risk_percent exactly 1.0 has been categorized.
C2_Witness ==
    /\ Categorized
    /\ risk_percent = <<1, 1>>
    /\ category = "Moderate"

\* risk_percent exactly 5.0 has been categorized.
C2_WitnessHigh ==
    /\ Categorized
    /\ risk_percent = <<5, 1>>
    /\ category = "High"

\* The provider is Unavailable as the specification defines it: the call
\* failed, the body is not JSON, or no record with a parseable flux and the
\* label ">=10 MeV" is in the response.
Survives(r) == IsNumber(to_numeric(r.flux)) /\ r.energy = ">=10 MeV"

Survivors(resp) == SelectSeq(resp.records, Survives)

Unavailable(resp) ==
    \/ resp.kind \in {"network_error", "not_json"}
    \/ resp.kind = "json" /\ Survivors(resp) = <<>>

\* C3: when the provider is Unavailable the run goes on with flux = 100, the
\* fallback warning is the one message shown, and the run neither crashes
\* nor stops before its end.
C3_Fallback ==
    (Unavailable(response) /\ pc # "try") =>
        /\ pc # "crashed"
        /\ pc # "done" => ENABLED Next
        /\ AfterTry =>
              /\ flux = <<100, 1>>
              /\ messages = <<[call |-> "warning", flux |-> <<100, 1>>]>>
        /\ pc = "done" =>
              /\ total_dose = Norm(Catalog(shielding_material)[1] * mission_days,
                                   Catalog(shielding_material)[2] * 200)
              /\ category = "Low"

\* A run that got a JSON array with no surviving record has finished on the
\* fallback.
C3_Witness ==
    /\ pc = "done"
    /\ response.kind = "json"
    /\ Len(response.records) > 0
    /\ Unavailable(response)
    /\ Shown("warning")

\* C4: the live current flux is the flux of a row of the series with the
\* greatest timestamp.
C4_CurrentIsTimeMax ==
    pc = "chart" =>
        \E i \in 1..Len(df) :
            /\ flux = df[i].flux
            /\ \A j \in 1..Len(df) : df[j].time_tag <= df[i].time_tag

ValidDays == {d \in SampleDays : 1 <= d /\ d <= 1000}

\* The doses of the same flux and shielding at another duration.
TotalAt(d) == total_dose_of(daily_dose, d)
RiskAt(d) == risk_percent_of(TotalAt(d))

\* C5 as stated: for every flux >= 0, total_dose and risk_percent are
\* strictly increasing in duration_days.
C5_StrictlyIncreasing ==
    (Calculated /\ NonNegative(flux)) =>
        \A d \in ValidDays :
            /\ d > mission_days => Less(total_dose, TotalAt(d)) /\ Less(risk_percent, RiskAt(d))
            /\ d < mission_days => Less(TotalAt(d), total_dose) /\ Less(RiskAt(d), risk_percent)

\* C5 amended: for every flux > 0, total_dose and risk_percent are strictly
\* increasing in duration_days; at flux = 0 both are 0 at every duration.
C5_IncreasingForPositiveFlux ==
    (Calculated /\ NonNegative(flux)) =>
        \A d \in ValidDays :
            IF flux[1] > 0
            THEN /\ d > mission_days => Less(total_dose, TotalAt(d)) /\ Less(risk_percent, RiskAt(d))
                 /\ d < mission_days => Less(TotalAt(d), total_dose) /\ Less(RiskAt(d), risk_percent)
            ELSE /\ total_dose = <<0, 1>> /\ TotalAt(d) = <<0, 1>>
                 /\ risk_percent = <<0, 1>> /\ RiskAt(d) = <<0, 1>>

\* A positive live flux has been used at a duration strictly between two others.
C5_Witness ==
    /\ Calculated
    /\ flux = <<20000, 1>>
    /\ mission_days = 200
    /\ total_dose # <<0, 1>>

\* C6: the table has one row per catalog key in the order None, Aluminum,
\* Polyethylene; each row's dose is base_dose_per_day times that material's
\* factor; the selected material's row is daily_dose; the table is a function
\* of flux alone.
C6_ComparisonTable ==
    pc = "done" =>
        /\ Len(df_shield) = 3
        /\ [i \in 1..3 |-> df_shield[i].Material] = <<"None", "Aluminum", "Polyethylene">>
        /\ \A i \in 1..3 :
              /\ df_shield[i].ShieldFactor = Catalog(df_shield[i].Material)
              /\ df_shield[i].DosePerDay = Mul(base_dose_per_day, Catalog(df_shield[i].Material))
              /\ df_shield[i].DosePerDay =
                    Mul(Norm(flux[1], flux[2] * 20000), Catalog(df_shield[i].Material))
              /\ df_shield[i].Material = shielding_material => df_shield[i].DosePerDay = daily_dose

\* The table has been built in a run that selected a shielding other than the
\* first and a duration other than the default.
C6_Witness ==
    /\ pc = "done"
    /\ shielding_material = "Polyethylene"
    /\ mission_days = 1000
    /\ flux = <<20000, 1>>
    /\ Len(df_shield) = 3

\* C7: the flux the calculator consumes is never negative, and neither are
\* base_dose_per_day, daily_dose, total_dose, risk_percent and xray_equivalent.
C7_NonNegative ==
    /\ AfterTry => NonNegative(flux)
    /\ Calculated =>
          /\ NonNegative(base_dose_per_day)
          /\ NonNegative(daily_dose)
          /\ NonNegative(total_dose)
          /\ NonNegative(risk_percent)
          /\ NonNegative(xray_equiv)

\* C8: no dose is ever calculated for a duration outside [1, 1000] or a
\* shielding that is no catalog key, and no run dies on such input.
C8_ValidParameters ==
    /\ pc # "crashed"
    /\ Calculated =>
          /\ mission_days \in 1..1000
          /\ shielding_material \in {"None", "Aluminum", "Polyethylene"}

\* A dose has been calculated at the upper end of the slider.
C8_Witness ==
    /\ Calculated
    /\ mission_days = 1000
    /\ total_dose # Unset

\* C9: the series is exactly the raw records whose flux parses and whose
\* label is ">=10 MeV", in order; other records in the response change nothing.
C9_SeriesIsSurvivors ==
    (pc # "try" /\ response.kind = "json") =>
        LET S == Survivors(response)
        IN  /\ Len(df) = Len(S)
            /\ \A i \in 1..Len(S) :
                  /\ i <= Len(df)
                  /\ df[i].flux = to_numeric(S[i].flux)
                  /\ df[i].time_tag = to_datetime(S[i].time_tag)

\* C10: the warning is shown only if no live flux was reported, and a flux
\* reported as live is the flux the calculator uses.
C10_LiveOrFallback ==
    /\ Shown("warning") => ~Shown("success")
    /\ (AfterTry /\ Shown("success")) => flux = messages[1].flux

====
